---- MODULE Spec2Model ----
(***************************************************************************)
(* i18n hydration of packages/core/src/hydration/i18n.ts and of its two    *)
(* sibling implementations (the legacy render3/i18n pair                   *)
(* computeI18nSerialization / computeI18nDeserialization and the           *)
(* isConnected variant of prepareI18nBlockForHydrationImpl).               *)
(*                                                                         *)
(* Serialization walks the i18n AST against the runtime view (lView) and   *)
(* writes the list of selected ICU cases; hydration walks the same AST     *)
(* against the live DOM and the persisted list, filling i18nNodes (the     *)
(* position -> node map) and disconnectedNodes.                            *)
(*                                                                         *)
(* Values.  A DOM node is the sequence of its children (a text or comment  *)
(* node is <<>>); the live tree is the sequence of its top-level nodes.    *)
(* A node reference (RNode) is the path of child numbers leading to it,    *)
(* and the null reference is the empty path.  A nullable number (a case    *)
(* slot of the lView, a container size, the result of Array.shift) is <<>> *)
(* for null/undefined and <<n>> for n.                                     *)
(*                                                                         *)
(* ngDevMode is a build-time choice, drawn in the hydration actions: with   *)
(* it set the assertions throw, without it they are compiled out.          *)
(***************************************************************************)
EXTENDS Integers, Sequences, FiniteSets, TLC

VARIABLES
    ast,            \* tI18n.ast: the AST of the i18n block (sequence of I18nNode)
    lView,          \* the ICU case slots of the lView: slot -> nullable number
    containers,     \* hydrationInfo container sizes: position -> nullable number
    dom,            \* the live DOM the block is hydrated against
    enableI18nHydration, \* context.enableI18nHydration of the serialization
    i18nData,       \* hydrationInfo.data[I18N_DATA][index - HEADER_OFFSET] (nullable list)
    i18nNodes,      \* hydrationInfo.i18nNodes / nodeMap: position -> node reference
    disconnectedNodes, \* hydrationInfo.disconnectedNodes
    serialized,     \* what the serializer returned: [isNull, cases]
    textsProcessed, \* AST indices handed to processTextNodeBeforeSerialization, in order
    serLog,         \* the ICU nodes the serializer visited, in order
    log,            \* what the latest hydration pass did, in order
    firstRun,       \* the record, map and disconnected set the first pass found, and
                    \* the map and disconnected set it left
    serializedBy,   \* "none", "trySerializeI18nBlock" or "computeI18nSerialization"
    hydratedBy,     \* "none", "prepareI18nBlockForHydration" (i18n.ts),
                    \* "prepareI18nBlockForHydrationConnected" (the isConnected variant)
                    \* or "computeI18nDeserialization" (legacy)
    runs,           \* hydration passes done on this view
    isI18nHydrationSupportEnabled, \* _isI18nHydrationSupportEnabled
    trySerializeImpl, \* _trySerializeI18nBlockImpl: "noop" or "impl"
    prepareImpl,    \* _prepareI18nBlockForHydrationImpl: "noop" or "impl"
    pc              \* "rendered", "serialized", "hydrated", "threw", "skipped"

vars == <<ast, lView, containers, dom, enableI18nHydration, i18nData, i18nNodes,
          disconnectedNodes, serialized, textsProcessed, serLog, log, firstRun,
          serializedBy, hydratedBy, runs, isI18nHydrationSupportEnabled,
          trySerializeImpl, prepareImpl, pc>>

\* The module-level switches.
flags == <<isI18nHydrationSupportEnabled, trySerializeImpl, prepareImpl>>

(***************************************************************************)
(* Constants and bounds                                                    *)
(***************************************************************************)
HEADER_OFFSET == 25

\* Largest container size recorded for a placeholder.
MaxContainerSize == 1
\* Most Text children of the generated Element blocks.
MaxTexts == 2
\* Most cases of the generated ICU blocks.
MaxCases == 3
\* Hydration passes over one view.
MaxRuns == 2
\* Most nodes of a block whose view already holds entries when the first pass starts.
MaxSeededNodes == 3

NULL == <<>>
None == <<>>
Some(n) == <<n>>
IsNull(x) == x = <<>>

Max(a, b) == IF a >= b THEN a ELSE b

Range(q) == {q[i] : i \in 1..Len(q)}

RECURSIVE Concat(_)
\* The sequences of a sequence, one after the other.
Concat(qs) == IF qs = <<>> THEN <<>> ELSE Head(qs) \o Concat(Tail(qs))

RECURSIVE SortSet(_)
\* A set of numbers in ascending order.
SortSet(S) ==
    IF S = {} THEN <<>>
    ELSE LET m == CHOOSE x \in S : \A y \in S : x <= y
         IN  <<m>> \o SortSet(S \ {m})

(***************************************************************************)
(* The live DOM                                                            *)
(***************************************************************************)
RECURSIVE childNodes(_, _)
\* The child list of the node at path p; the top-level chain for the empty path.
childNodes(d, p) ==
    IF p = <<>> THEN d
    ELSE childNodes(d, SubSeq(p, 1, Len(p) - 1))[p[Len(p)]]

Parent(p) == SubSeq(p, 1, Len(p) - 1)

\* Node.nextSibling
nextSibling(d, p) ==
    IF p[Len(p)] < Len(childNodes(d, Parent(p)))
    THEN Parent(p) \o <<p[Len(p)] + 1>>
    ELSE NULL

\* Node.firstChild
firstChild(d, p) ==
    IF Len(childNodes(d, p)) > 0 THEN p \o <<1>> ELSE NULL

RECURSIVE DomSize(_)
\* Number of nodes of a forest.
DomSize(f) ==
    IF f = <<>> THEN 0 ELSE 1 + DomSize(Head(f)) + DomSize(Tail(f))

RECURSIVE Truncate(_, _)
\* The first k nodes of a forest in document order: a render that stopped early.
Truncate(f, k) ==
    IF f = <<>> \/ k = 0 THEN <<>>
    ELSE LET first == Truncate(Head(f), k - 1)
         IN  <<first>> \o Truncate(Tail(f), k - 1 - DomSize(first))

(***************************************************************************)
(* The i18n AST (I18nNode) and the blocks the model draws from             *)
(***************************************************************************)
\* An I18nNode.  Every kind carries all fields; those a kind does not have are empty.
I18nNode(kind, type, children, cases) ==
    [kind |-> kind, index |-> 0, type |-> type, children |-> children,
     cases |-> cases, currentCaseLViewIndex |-> 0]

Text == I18nNode("TEXT", "NONE", <<>>, <<>>)
Element(children) == I18nNode("ELEMENT", "NONE", children, <<>>)
PlaceholderElement(children) == I18nNode("PLACEHOLDER", "ELEMENT", children, <<>>)
Subtemplate(children) == I18nNode("PLACEHOLDER", "SUBTEMPLATE", children, <<>>)
Icu(cases) == I18nNode("ICU", "NONE", <<>>, cases)

RECURSIVE LabelNodes(_, _), LabelCases(_, _)
\* Slots are handed out in document order, as the i18n parser allocates them; an ICU
\* node's case slot is named after the node.
LabelNode(n, next) ==
    LET ch == LabelNodes(n.children, next + 1)
        cs == LabelCases(n.cases, ch.next)
    IN  [node |-> [n EXCEPT !.index = next, !.children = ch.nodes, !.cases = cs.cases,
                            !.currentCaseLViewIndex = IF n.kind = "ICU" THEN next ELSE 0],
         next |-> cs.next]

LabelNodes(nodes, next) ==
    IF nodes = <<>> THEN [nodes |-> <<>>, next |-> next]
    ELSE LET h == LabelNode(Head(nodes), next)
             t == LabelNodes(Tail(nodes), h.next)
         IN  [nodes |-> <<h.node>> \o t.nodes, next |-> t.next]

LabelCases(cases, next) ==
    IF cases = <<>> THEN [cases |-> <<>>, next |-> next]
    ELSE LET h == LabelNodes(Head(cases), next)
             t == LabelCases(Tail(cases), h.next)
         IN  [cases |-> <<h.nodes>> \o t.cases, next |-> t.next]

Ast(shape) == LabelNodes(shape, HEADER_OFFSET + 1).nodes

\* The blocks: the empty block, Text and Element blocks, ICU blocks with every number
\* of cases, nested and sibling ICU nodes, and both kinds of placeholder, with ICU
\* nodes inside and after them.
Blocks ==
    {<< >>, <<Text>>, <<Element(<<Text>>), Text>>}
    \cup {<<Element([i \in 1..k |-> Text])>> : k \in 0..MaxTexts}
    \cup {<<Icu([i \in 1..n |-> <<Text>>])>> : n \in 1..MaxCases}
    \cup {<<Icu(<< <<Text>>, <<>> >>), Icu(<< <<>>, <<Text>> >>)>>,
          <<Icu(<< <<Icu(<< <<Text>>, <<Text>> >>)>>, <<Text>> >>), Text>>,
          <<Element(<<Icu(<< <<Text>>, <<>> >>)>>), Icu(<< <<>>, <<Text>> >>)>>,
          <<PlaceholderElement(<<Text>>), Text>>,
          <<PlaceholderElement(<<Icu(<< <<Text>>, <<>> >>)>>), Icu(<< <<>>, <<Text>> >>)>>,
          <<Subtemplate(<<Text>>), Text>>,
          <<Text, Subtemplate(<<>>), Text>>,
          <<Subtemplate(<<Icu(<< <<>>, <<>> >>)>>), Icu(<< <<Text>>, <<Text>> >>)>>,
          <<Subtemplate(<<Icu(<< <<>>, <<>>, <<>> >>)>>),
            Icu(<< <<Text>>, <<Element(<<Text>>)>> >>), Icu(<< <<Text>> >>)>>,
          <<Icu(<< <<Element(<<Text>>)>>,
                   <<Subtemplate(<<Text>>), PlaceholderElement(<<Text>>)>> >>), Text>>,
          <<Icu(<< <<Text>>, <<Text>> >>), Icu(<< <<Text>>, <<Text>> >>)>>,
          <<Icu(<< <<Icu(<< <<Text>> >>)>>, <<Text>>,
                   <<Element(<<Text>>), PlaceholderElement(<<Text>>)>> >>), Text>>}

RECURSIVE AllNodes(_), AllCaseNodes(_)
\* Every node of a list of nodes, at any depth and in any case.
AllNodes(nodes) ==
    IF nodes = <<>> THEN {}
    ELSE {Head(nodes)} \cup AllNodes(Head(nodes).children)
         \cup AllCaseNodes(Head(nodes).cases) \cup AllNodes(Tail(nodes))

AllCaseNodes(cases) ==
    IF cases = <<>> THEN {} ELSE AllNodes(Head(cases)) \cup AllCaseNodes(Tail(cases))

Below(n) == AllNodes(n.children) \cup AllCaseNodes(n.cases)
Pos(n) == n.index - HEADER_OFFSET

\* The case slot values the render can leave for an ICU node: never set, a stable
\* case c, or a case that has just changed, ~c.
CaseSlotValues(n) ==
    {None} \cup {Some(c) : c \in 0..(Len(n.cases) - 1)}
    \cup {Some(-c - 1) : c \in 0..(Len(n.cases) - 1)}

\* The container sizes the hydration info can record for a placeholder.
ContainerSizes(n) ==
    {Some(k) : k \in 0..MaxContainerSize}
    \cup IF n.type = "ELEMENT" THEN {None} ELSE {}

\* getNgContainerSize(hydrationInfo, position)
getNgContainerSize(sizes, noOffsetIndex) ==
    IF noOffsetIndex \in DOMAIN sizes THEN sizes[noOffsetIndex] ELSE None

\* The case a slot value v stands for: the c >= 0 with v = c (stable) or v = ~c (just
\* changed).
SelectedCase(v) == CHOOSE c \in 0..Max(v, -v) : v = c \/ v = -c - 1

RECURSIVE Render(_, _, _)
\* The DOM the server renders for a list of AST nodes: a node per Text, a node with
\* its children per Element and per placeholder element, the children followed by an
\* anchor for a container, containerSize nodes followed by an anchor for a
\* subtemplate, the nodes of the selected case followed by an anchor for an ICU.
RenderNode(n, view, sizes) ==
    LET size == getNgContainerSize(sizes, Pos(n))
    IN  CASE n.kind = "TEXT" -> << <<>> >>
          [] n.kind = "ELEMENT" -> << Render(n.children, view, sizes) >>
          [] n.kind = "PLACEHOLDER" /\ n.type = "ELEMENT" ->
                IF IsNull(size) THEN << Render(n.children, view, sizes) >>
                ELSE Render(n.children, view, sizes) \o << <<>> >>
          [] n.kind = "PLACEHOLDER" /\ n.type = "SUBTEMPLATE" ->
                [i \in 1..(size[1] + 1) |-> <<>>]
          [] n.kind = "ICU" ->
                IF IsNull(view[n.currentCaseLViewIndex]) THEN << <<>> >>
                ELSE Render(n.cases[SelectedCase(view[n.currentCaseLViewIndex][1]) + 1],
                            view, sizes) \o << <<>> >>

Render(nodes, view, sizes) ==
    IF nodes = <<>> THEN <<>>
    ELSE RenderNode(Head(nodes), view, sizes) \o Render(Tail(nodes), view, sizes)

(***************************************************************************)
(* Serialization                                                           *)
(***************************************************************************)
\* What a serialization pass has accumulated: the case list, the text nodes handed to
\* processTextNodeBeforeSerialization and the ICU nodes visited.
NoCases == [icuCases |-> <<>>, texts |-> <<>>, icus |-> <<>>]

\* currentCase < 0 ? ~currentCase : currentCase
caseIdxOf(currentCase) ==
    IF currentCase < 0 THEN -currentCase - 1 ELSE currentCase

RECURSIVE serializeI18nBlock(_, _, _), serializeEach(_, _, _)
\* serializeI18nBlock writing an ICU node's case after its selected case was walked.
serializeI18nBlockCaseLast(acc, view, node) ==
    CASE node.kind = "TEXT" ->
            [acc EXCEPT !.texts = Append(@, node.index)]
      [] node.kind \in {"ELEMENT", "PLACEHOLDER"} ->
            serializeEach(acc, view, node.children)
      [] node.kind = "ICU" ->
            LET currentCase == view[node.currentCaseLViewIndex]
            IN  IF ~IsNull(currentCase)
                THEN LET caseIdx == caseIdxOf(currentCase[1])
                         walked == serializeEach(acc, view, node.cases[caseIdx + 1])
                     IN  [walked EXCEPT !.icuCases = Append(@, caseIdx),
                                        !.icus = Append(@, node.index)]
                ELSE acc

\* serializeI18nBlock walking every case of an ICU node, not the selected one alone.
serializeI18nBlockEveryCase(acc, view, node) ==
    CASE node.kind = "TEXT" ->
            [acc EXCEPT !.texts = Append(@, node.index)]
      [] node.kind \in {"ELEMENT", "PLACEHOLDER"} ->
            serializeEach(acc, view, node.children)
      [] node.kind = "ICU" ->
            LET currentCase == view[node.currentCaseLViewIndex]
                pushed == IF ~IsNull(currentCase)
                          THEN [acc EXCEPT
                                  !.icuCases = Append(@, caseIdxOf(currentCase[1])),
                                  !.icus = Append(@, node.index)]
                          ELSE acc
            IN  serializeEach(pushed, view, Concat(node.cases))

\* serializeI18nBlock of trySerializeI18nBlockImpl.
serializeI18nBlock(acc, view, node) ==
    CASE node.kind = "TEXT" ->
            [acc EXCEPT !.texts = Append(@, node.index)]
      [] node.kind \in {"ELEMENT", "PLACEHOLDER"} ->
            serializeEach(acc, view, node.children)
      [] node.kind = "ICU" ->
            LET currentCase == view[node.currentCaseLViewIndex]
            IN  IF ~IsNull(currentCase)
                THEN LET caseIdx == caseIdxOf(currentCase[1])
                     IN  serializeEach(
                             [acc EXCEPT !.icuCases = Append(@, caseIdx),
                                         !.icus = Append(@, node.index)],
                             view, node.cases[caseIdx + 1])
                ELSE acc

\* nodes.forEach(serializeI18nBlock)
serializeEach(acc, view, nodes) ==
    IF nodes = <<>> THEN acc
    ELSE serializeEach(serializeI18nBlock(acc, view, Head(nodes)), view, Tail(nodes))

\* Returned with the empty list handed out as it is.
ReturnedList(acc) ==
    [isNull |-> FALSE, cases |-> acc.icuCases, texts |-> acc.texts, icus |-> acc.icus]

\* The value returned: icuCases.length > 0 ? icuCases : null
Returned(acc) ==
    [isNull |-> ~(Len(acc.icuCases) > 0), cases |-> acc.icuCases,
     texts |-> acc.texts, icus |-> acc.icus]

NullReturned == [isNull |-> TRUE, cases |-> <<>>, texts |-> <<>>, icus |-> <<>>]

\* trySerializeI18nBlockImpl walking the block whatever the context says.
trySerializeI18nBlockImplAlways(view, enabled, nodes) ==
    Returned(serializeEach(NoCases, view, nodes))

trySerializeI18nBlockImpl(view, enabled, nodes) ==
    IF ~enabled THEN NullReturned
    ELSE Returned(serializeEach(NoCases, view, nodes))

RECURSIVE processForSerialization(_, _, _), processEach(_, _, _)
\* processForSerialization of the legacy computeI18nSerialization: only a case that
\* has just changed (a negative slot value) is written.
processForSerialization(acc, view, node) ==
    CASE node.kind = "TEXT" ->
            [acc EXCEPT !.texts = Append(@, node.index)]
      [] node.kind \in {"ELEMENT", "PLACEHOLDER"} ->
            processEach(acc, view, node.children)
      [] node.kind = "ICU" ->
            LET currentCase == view[node.currentCaseLViewIndex]
            IN  IF ~IsNull(currentCase) /\ currentCase[1] < 0
                THEN LET caseIdx == -currentCase[1] - 1
                     IN  processEach(
                             [acc EXCEPT !.icuCases = Append(@, caseIdx),
                                         !.icus = Append(@, node.index)],
                             view, node.cases[caseIdx + 1])
                ELSE acc

processEach(acc, view, nodes) ==
    IF nodes = <<>> THEN acc
    ELSE processEach(processForSerialization(acc, view, Head(nodes)), view, Tail(nodes))

computeI18nSerialization(view, nodes) ==
    Returned(processEach(NoCases, view, nodes))

(***************************************************************************)
(* Hydration: what the three implementations share                         *)
(***************************************************************************)
\* One step of a hydration pass, as the log keeps it.
\*   "enter"/"exit": a node is visited with the cursor at cur (flag: a state is
\*                   there / is connected); exit gives the cursor left behind;
\*   "mark": markHydrationRoot(pos) with the cursor at cur, leaving it at next
\*           (flag: the position was mapped);
\*   "pop":  the ICU node at pos took sel off the case queue.
Event(ev, pos, cur, next, sel, flag) ==
    [ev |-> ev, pos |-> pos, cur |-> cur, next |-> next, sel |-> sel, flag |-> flag]

\* The shared data of a pass: the DOM and the container sizes (read only), the map,
\* the disconnected set, the case queue and the log.
Context(d, sizes, map, disconnected, queue) ==
    [dom |-> d, sizes |-> sizes, i18nMap |-> map, disconnectedNodes |-> disconnected,
     caseQueue |-> queue, log |-> <<>>]

Logged(r, e) == [r EXCEPT !.c.log = Append(@, e)]

\* Array.prototype.shift: the head, or undefined for an empty array.
Shifted(queue) == IF Len(queue) > 0 THEN Some(Head(queue)) ELSE None
AfterShift(queue) == IF Len(queue) > 0 THEN Tail(queue) ELSE queue

RECURSIVE siblingAfter(_, _, _)
\* siblingAfter(skip, from) of node_lookup_utils: the node skip siblings after from,
\* or null if the chain ends early.
siblingAfter(d, skip, from) ==
    IF skip = 0 \/ from = NULL THEN from
    ELSE siblingAfter(d, skip - 1, nextSibling(d, from))

\* locateNextRNode for the first node of the block: the head of the live chain, or
\* null when nothing was rendered.
locateNextRNode(d) == IF Len(d) > 0 THEN <<1>> ELSE NULL

(***************************************************************************)
(* Hydration, packages/core/src/hydration/i18n.ts                          *)
(* A state is HydrationState|null: [present, currentNode].                 *)
(***************************************************************************)
NoState == [present |-> FALSE, currentNode |-> NULL]
HydrationState(node) == [present |-> TRUE, currentNode |-> node]

\* state?.currentNode
CurrentNode(s) == IF s.present THEN s.currentNode ELSE NULL

\* markHydrationRoot without disconnectedNodes.delete(noOffsetIndex).
markHydrationRootWithoutDelete(r, node, options) ==
    LET noOffsetIndex == node.index - HEADER_OFFSET
        domNode == CurrentNode(r.s)
    IN  IF domNode # NULL
        THEN LET next == IF options = "CLAIM" THEN nextSibling(r.c.dom, domNode)
                         ELSE domNode
             IN  [c |-> [r.c EXCEPT
                           !.i18nMap = (noOffsetIndex :> domNode) @@ @,
                           !.log = Append(@, Event("mark", noOffsetIndex, domNode,
                                                   next, None, TRUE))],
                  s |-> [r.s EXCEPT !.currentNode = next]]
        ELSE [c |-> [r.c EXCEPT
                       !.disconnectedNodes = @ \cup {noOffsetIndex},
                       !.log = Append(@, Event("mark", noOffsetIndex, NULL, NULL,
                                               None, FALSE))],
              s |-> r.s]

\* markHydrationRoot(node, state, options) of i18n.ts and of the legacy pass
markHydrationRoot(r, node, options) ==
    LET noOffsetIndex == node.index - HEADER_OFFSET
        domNode == CurrentNode(r.s)
    IN  IF domNode # NULL
        THEN LET next == IF options = "CLAIM" THEN nextSibling(r.c.dom, domNode)
                         ELSE domNode
             IN  [c |-> [r.c EXCEPT
                           !.i18nMap = (noOffsetIndex :> domNode) @@ @,
                           !.disconnectedNodes = @ \ {noOffsetIndex},
                           !.log = Append(@, Event("mark", noOffsetIndex, domNode,
                                                   next, None, TRUE))],
                  s |-> [r.s EXCEPT !.currentNode = next]]
        ELSE [c |-> [r.c EXCEPT
                       !.disconnectedNodes = @ \cup {noOffsetIndex},
                       !.log = Append(@, Event("mark", noOffsetIndex, NULL, NULL,
                                               None, FALSE))],
              s |-> r.s]

\* The child state starting at the parent's own node.
childStateAtParent(d, s) == s

\* state ? {currentNode: state.currentNode?.firstChild ?? null} : null
childStateOf(d, s) ==
    IF s.present
    THEN HydrationState(IF s.currentNode # NULL THEN firstChild(d, s.currentNode)
                        ELSE NULL)
    ELSE NoState

\* state?.currentNode ? caseQueue.shift()! : null, with whether the queue was shifted
selectedCaseOf(s, queue) ==
    IF CurrentNode(s) # NULL
    THEN [popped |-> TRUE, selectedCase |-> Shifted(queue), queue |-> AfterShift(queue)]
    ELSE [popped |-> FALSE, selectedCase |-> None, queue |-> queue]

\* Every case handed the state object, selected or not.
caseStateShared(i, selectedCase, s) == s

\* The first case taken as selected when the queue gave no entry.
caseStateDefaultFirst(i, selectedCase, s) ==
    IF selectedCase = Some(i) \/ (IsNull(selectedCase) /\ i = 0) THEN s ELSE NoState

\* i === selectedCase ? state : null
caseStateOf(i, selectedCase, s) ==
    IF selectedCase = Some(i) THEN s ELSE NoState

\* The SUBTEMPLATE skip stopping at the anchor instead of after it.
skipSubtemplateToAnchor(d, containerSize, s) ==
    IF CurrentNode(s) # NULL
    THEN [s EXCEPT !.currentNode = siblingAfter(d, containerSize, s.currentNode)]
    ELSE s

\* The SUBTEMPLATE skip: over the template's nodes, then over the anchor.
skipSubtemplate(d, containerSize, s) ==
    IF CurrentNode(s) # NULL
    THEN LET skipped == siblingAfter(d, containerSize, s.currentNode)
         IN  [s EXCEPT !.currentNode =
                         IF skipped # NULL THEN nextSibling(d, skipped) ELSE NULL]
    ELSE s

\* The anchor skipped whether or not a container size is recorded.
skipAnchorAlways(d, containerSize, s) ==
    IF CurrentNode(s) # NULL
    THEN [s EXCEPT !.currentNode = nextSibling(d, s.currentNode)]
    ELSE s

\* No anchor skipped after a placeholder element's children.
skipAnchorNever(d, containerSize, s) == s

\* The container anchor skip after a placeholder element's children.
skipAnchor(d, containerSize, s) ==
    IF ~IsNull(containerSize) /\ CurrentNode(s) # NULL
    THEN [s EXCEPT !.currentNode = nextSibling(d, s.currentNode)]
    ELSE s

RECURSIVE prepareForHydration(_, _), prepareForHydrationAll(_, _),
          prepareForHydrationCases(_, _, _, _)

\* prepareForHydration(node, state) for one node.  r.c is the shared data and r.s the
\* state object passed in; the result holds both as the call leaves them.
prepareForHydration(r, node) ==
    LET d == r.c.dom
        pos == node.index - HEADER_OFFSET
        entered == Logged(r, Event("enter", pos, CurrentNode(r.s), NULL, None,
                                   r.s.present))
        left ==
          CASE node.kind = "TEXT" ->
                 markHydrationRoot(entered, node, "CLAIM")
            [] node.kind = "ELEMENT" ->
                 LET childState == childStateOf(d, entered.s)
                     done == prepareForHydrationAll([c |-> entered.c, s |-> childState],
                                                    node.children)
                 IN  markHydrationRoot([c |-> done.c, s |-> entered.s], node, "CLAIM")
            [] node.kind = "PLACEHOLDER" /\ node.type = "ELEMENT" ->
                 LET containerSize == getNgContainerSize(r.c.sizes, pos)
                 IN  IF IsNull(containerSize)
                     THEN LET childState == childStateOf(d, entered.s)
                              marked == markHydrationRoot(entered, node, "CLAIM")
                              done == prepareForHydrationAll(
                                          [c |-> marked.c, s |-> childState],
                                          node.children)
                          IN  [c |-> done.c, s |-> skipAnchor(d, containerSize, marked.s)]
                     ELSE LET marked == markHydrationRoot(entered, node, "NONE")
                              done == prepareForHydrationAll(marked, node.children)
                          IN  [c |-> done.c, s |-> skipAnchor(d, containerSize, done.s)]
            [] node.kind = "PLACEHOLDER" /\ node.type = "SUBTEMPLATE" ->
                 LET containerSize == getNgContainerSize(r.c.sizes, pos)
                     marked == markHydrationRoot(entered, node, "NONE")
                 IN  [c |-> marked.c,
                      s |-> skipSubtemplate(d, containerSize[1], marked.s)]
            [] node.kind = "ICU" ->
                 LET sel == selectedCaseOf(entered.s, entered.c.caseQueue)
                     popped == [c |-> [entered.c EXCEPT
                                         !.caseQueue = sel.queue,
                                         !.log = Append(@, Event("pop", pos,
                                                   CurrentNode(entered.s), NULL,
                                                   sel.selectedCase, sel.popped))],
                                s |-> entered.s]
                     done == prepareForHydrationCases(popped, node, 0, sel.selectedCase)
                 IN  markHydrationRoot(done, node, "CLAIM")
    IN  Logged(left, Event("exit", pos, CurrentNode(left.s), NULL, None, left.s.present))

\* The Array.isArray branch: each node in turn with the same state object.
prepareForHydrationAll(r, nodes) ==
    IF nodes = <<>> THEN r
    ELSE prepareForHydrationAll(prepareForHydration(r, Head(nodes)), Tail(nodes))

\* The loop over the cases with the selected case working on a copy of the state, so
\* that what it consumed is lost to the ICU node.
prepareForHydrationCasesOnCopy(r, node, i, selectedCase) ==
    IF i >= Len(node.cases) THEN r
    ELSE LET done == prepareForHydrationAll(
                         [c |-> r.c, s |-> caseStateOf(i, selectedCase, r.s)],
                         node.cases[i + 1])
         IN  prepareForHydrationCases([c |-> done.c, s |-> r.s], node, i + 1,
                                      selectedCase)

\* The loop over the cases of an ICU node, from case i on.
prepareForHydrationCases(r, node, i, selectedCase) ==
    IF i >= Len(node.cases) THEN r
    ELSE LET caseState == caseStateOf(i, selectedCase, r.s)
             done == prepareForHydrationAll([c |-> r.c, s |-> caseState],
                                            node.cases[i + 1])
         IN  prepareForHydrationCases(
                 [c |-> done.c, s |-> IF caseState.present THEN done.s ELSE r.s],
                 node, i + 1, selectedCase)

(***************************************************************************)
(* Hydration, legacy (computeI18nDeserialization)                          *)
(***************************************************************************)
\* computeDeserializationData and its markHydrationRoot are, statement for statement,
\* prepareForHydration and markHydrationRoot of i18n.ts with the shared data passed
\* as a context object.
computeDeserializationData(r, nodes) == prepareForHydrationAll(r, nodes)

(***************************************************************************)
(* Hydration, the isConnected variant                                      *)
(* A state is I18nHydrationState: [currentNode, isConnected].              *)
(***************************************************************************)
I18nHydrationState(node, isConnected) ==
    [currentNode |-> node, isConnected |-> isConnected]

markHydrationRootConnected(r, astNode, options) ==
    LET noOffsetIndex == astNode.index - HEADER_OFFSET
        currentNode == r.s.currentNode
    IN  IF r.s.isConnected
        THEN LET next == IF currentNode # NULL /\ options = "CLAIM"
                         THEN nextSibling(r.c.dom, currentNode)
                         ELSE currentNode
             IN  [c |-> [r.c EXCEPT
                           !.i18nMap = (noOffsetIndex :> currentNode) @@ @,
                           !.disconnectedNodes = @ \ {noOffsetIndex},
                           !.log = Append(@, Event("mark", noOffsetIndex, currentNode,
                                                   next, None, TRUE))],
                  s |-> [r.s EXCEPT !.currentNode = next]]
        ELSE [c |-> [r.c EXCEPT
                       !.disconnectedNodes = @ \cup {noOffsetIndex},
                       !.log = Append(@, Event("mark", noOffsetIndex, currentNode,
                                               currentNode, None, FALSE))],
              s |-> r.s]

RECURSIVE skipHydrationNodes(_, _, _)
skipHydrationNodes(d, s, skip) ==
    IF skip = 0 \/ s.currentNode = NULL THEN s
    ELSE skipHydrationNodes(d, [s EXCEPT !.currentNode = nextSibling(d, s.currentNode)],
                            skip - 1)

forkChildHydrationState(d, s) ==
    I18nHydrationState(IF s.currentNode # NULL THEN nextSibling(d, s.currentNode)
                       ELSE NULL,
                       s.isConnected)

\* state.isConnected ? context.caseQueue.shift()! : null
selectedCaseConnected(s, queue) ==
    IF s.isConnected
    THEN [popped |-> TRUE, selectedCase |-> Shifted(queue), queue |-> AfterShift(queue)]
    ELSE [popped |-> FALSE, selectedCase |-> None, queue |-> queue]

RECURSIVE prepareForHydrationConnected(_, _), prepareForHydrationConnectedAll(_, _),
          prepareForHydrationConnectedCases(_, _, _, _)

prepareForHydrationConnected(r, node) ==
    LET d == r.c.dom
        pos == node.index - HEADER_OFFSET
        entered == Logged(r, Event("enter", pos, r.s.currentNode, NULL, None,
                                   r.s.isConnected))
        left ==
          CASE node.kind = "TEXT" ->
                 markHydrationRootConnected(entered, node, "CLAIM")
            [] node.kind = "ELEMENT" ->
                 LET done == prepareForHydrationConnectedAll(
                                 [c |-> entered.c,
                                  s |-> forkChildHydrationState(d, entered.s)],
                                 node.children)
                 IN  markHydrationRootConnected([c |-> done.c, s |-> entered.s],
                                                node, "CLAIM")
            [] node.kind = "PLACEHOLDER" /\ node.type = "ELEMENT" ->
                 LET containerSize == getNgContainerSize(r.c.sizes, pos)
                 IN  IF IsNull(containerSize)
                     THEN LET childState == forkChildHydrationState(d, entered.s)
                              marked == markHydrationRootConnected(entered, node, "CLAIM")
                              done == prepareForHydrationConnectedAll(
                                          [c |-> marked.c, s |-> childState],
                                          node.children)
                          IN  [c |-> done.c, s |-> marked.s]
                     ELSE LET marked == markHydrationRootConnected(entered, node, "NONE")
                              done == prepareForHydrationConnectedAll(marked,
                                                                     node.children)
                          IN  [c |-> done.c, s |-> skipHydrationNodes(d, done.s, 1)]
            [] node.kind = "PLACEHOLDER" /\ node.type = "SUBTEMPLATE" ->
                 LET containerSize == getNgContainerSize(r.c.sizes, pos)
                     marked == markHydrationRootConnected(entered, node, "NONE")
                 IN  [c |-> marked.c,
                      s |-> skipHydrationNodes(d, marked.s, containerSize[1] + 1)]
            [] node.kind = "ICU" ->
                 LET sel == selectedCaseConnected(entered.s, entered.c.caseQueue)
                     popped == [c |-> [entered.c EXCEPT
                                         !.caseQueue = sel.queue,
                                         !.log = Append(@, Event("pop", pos,
                                                   entered.s.currentNode, NULL,
                                                   sel.selectedCase, sel.popped))],
                                s |-> entered.s]
                     done == prepareForHydrationConnectedCases(popped, node, 0,
                                                               sel.selectedCase)
                 IN  markHydrationRootConnected(done, node, "CLAIM")
    IN  Logged(left, Event("exit", pos, left.s.currentNode, NULL, None,
                           left.s.isConnected))

prepareForHydrationConnectedAll(r, nodes) ==
    IF nodes = <<>> THEN r
    ELSE prepareForHydrationConnectedAll(prepareForHydrationConnected(r, Head(nodes)),
                                         Tail(nodes))

\* The loop over the cases: the selected case gets the state object itself, every
\* other case childState = {currentNode: null, isConnected: false}.
prepareForHydrationConnectedCases(r, node, i, selectedCase) ==
    IF i >= Len(node.cases) THEN r
    ELSE LET selected == selectedCase = Some(i)
             caseState == IF selected THEN r.s ELSE I18nHydrationState(NULL, FALSE)
             done == prepareForHydrationConnectedAll([c |-> r.c, s |-> caseState],
                                                     node.cases[i + 1])
         IN  prepareForHydrationConnectedCases(
                 [c |-> done.c, s |-> IF selected THEN done.s ELSE r.s],
                 node, i + 1, selectedCase)

(***************************************************************************)
(* The entry points                                                        *)
(***************************************************************************)
NoRecord == [isNull |-> TRUE, cases |-> <<>>]
Record(cases) == [isNull |-> FALSE, cases |-> cases]

\* hydrationInfo.data[I18N_DATA]?.[index - HEADER_OFFSET] ?? []
caseQueueOf(record) == IF record.isNull THEN <<>> ELSE record.cases

\* What a pass leaves: the map, the disconnected set, the persisted record and the log.
Pass(threw, map, disconnected, record, passLog) ==
    [threw |-> threw, i18nNodes |-> map, disconnectedNodes |-> disconnected,
     i18nData |-> record, log |-> passLog]

\* prepareI18nBlockForHydrationImpl of i18n.ts.  The case queue is the persisted
\* array itself, so what shift() takes off is gone from the record.
prepareI18nBlockForHydrationImpl(ngDevMode, nodes, d, sizes, map, disconnected, record) ==
    LET rootNode == locateNextRNode(d)
    IN  IF Len(nodes) = 0 THEN Pass(FALSE, map, disconnected, record, <<>>)
        ELSE IF ngDevMode /\ rootNode = NULL
        THEN Pass(TRUE, map, disconnected, record, <<>>)
        ELSE LET done == prepareForHydrationAll(
                             [c |-> Context(d, sizes, map, disconnected,
                                            caseQueueOf(record)),
                              s |-> HydrationState(rootNode)], nodes)
             IN  Pass(FALSE, done.c.i18nMap, done.c.disconnectedNodes,
                      IF record.isNull THEN record ELSE Record(done.c.caseQueue),
                      done.c.log)

\* initDisconnectedNodes(hydrationInfo) ?? new Set(): the set the view holds, a null
\* one being the empty set.
initDisconnectedNodes(disconnected) == disconnected

\* prepareI18nBlockForHydrationImpl of the isConnected variant.  The set is written
\* back as null when it is empty, which is the empty set here.
prepareI18nBlockForHydrationConnectedImpl(nodes, d, sizes, map, disconnected, record) ==
    IF Len(nodes) = 0 THEN Pass(FALSE, map, disconnected, record, <<>>)
    ELSE LET done == prepareForHydrationConnectedAll(
                         [c |-> Context(d, sizes, map,
                                        initDisconnectedNodes(disconnected),
                                        caseQueueOf(record)),
                          s |-> I18nHydrationState(locateNextRNode(d), TRUE)], nodes)
         IN  Pass(FALSE, done.c.i18nMap, done.c.disconnectedNodes,
                  IF record.isNull THEN record ELSE Record(done.c.caseQueue),
                  done.c.log)

\* computeI18nDeserialization (legacy): tI18n.ast[0].index throws for an empty block,
\* and the pass works on a copy of the persisted queue.
computeI18nDeserialization(ngDevMode, nodes, d, sizes, map, disconnected, record) ==
    LET rootNode == locateNextRNode(d)
    IN  IF Len(nodes) = 0 \/ (ngDevMode /\ rootNode = NULL)
        THEN Pass(TRUE, map, disconnected, record, <<>>)
        ELSE LET done == computeDeserializationData(
                             [c |-> Context(d, sizes, map, disconnected,
                                            caseQueueOf(record)),
                              s |-> HydrationState(rootNode)], nodes)
             IN  Pass(FALSE, done.c.i18nMap, done.c.disconnectedNodes, record,
                      done.c.log)

(***************************************************************************)
(* The state machine: a block is rendered, serialized, and hydrated        *)
(***************************************************************************)
IcuNodes(nodes) == {n \in AllNodes(nodes) : n.kind = "ICU"}
Placeholders(nodes) == {n \in AllNodes(nodes) : n.kind = "PLACEHOLDER"}

\* The case slots a view can hold for a block.
Views(nodes) ==
    LET icus == IcuNodes(nodes)
        slots == {n.currentCaseLViewIndex : n \in icus}
    IN  {v \in [slots -> UNION {CaseSlotValues(n) : n \in icus}] :
            \A n \in icus : v[n.currentCaseLViewIndex] \in CaseSlotValues(n)}

\* The container sizes a hydration info can hold for a block.
Sizes(nodes) ==
    LET phs == Placeholders(nodes)
    IN  {z \in [{Pos(n) : n \in phs} -> UNION {ContainerSizes(n) : n \in phs}] :
            \A n \in phs : z[Pos(n)] \in ContainerSizes(n)}

\* The live trees: the render of the block, whole or cut short.
Doms(nodes, view, sizes) ==
    LET whole == Render(nodes, view, sizes)
    IN  {Truncate(whole, k) : k \in 0..DomSize(whole)}

\* A position of the view before the positions of the block, and the live node an
\* earlier block of the view matched to it.
Elsewhere == 0
ElsewhereNode == <<Elsewhere>>

\* What hydrationInfo holds when the pass over the block starts: nothing yet, or, for
\* a block of at most MaxSeededNodes nodes, a map entry left by an earlier block of
\* the view and the disconnected set loaded from data[DISCONNECTED_NODES] or left by
\* an earlier block, with the first two positions of the block and the position after
\* the block in it.
Seeds(nodes) ==
    LET size == Cardinality(AllNodes(nodes))
    IN  {[i18nNodes |-> <<>>, disconnectedNodes |-> {}]} \cup
        (IF size <= MaxSeededNodes
         THEN {[i18nNodes |-> (Elsewhere :> ElsewhereNode),
                disconnectedNodes |-> {1, 2, size + 1}]}
         ELSE {})

NotRun == [i18nData |-> NoRecord, i18nNodesFound |-> <<>>, disconnectedNodesFound |-> {},
           i18nNodes |-> <<>>, disconnectedNodes |-> {}]

Init ==
    /\ ast \in {Ast(b) : b \in Blocks}
    /\ lView \in Views(ast)
    /\ containers \in Sizes(ast)
    /\ dom \in Doms(ast, lView, containers)
    /\ enableI18nHydration = FALSE
    /\ i18nData = NoRecord
    /\ \E seed \in Seeds(ast) :
          /\ i18nNodes = seed.i18nNodes
          /\ disconnectedNodes = seed.disconnectedNodes
    /\ serialized = NullReturned
    /\ textsProcessed = <<>>
    /\ serLog = <<>>
    /\ log = <<>>
    /\ firstRun = NotRun
    /\ serializedBy = "none"
    /\ hydratedBy = "none"
    /\ runs = 0
    /\ isI18nHydrationSupportEnabled = FALSE
    /\ trySerializeImpl = "noop"
    /\ prepareImpl = "noop"
    /\ pc = "rendered"

\* The serializer returned res: annotation persists a non-null list with the markup.
Serialized(res, by, enabled) ==
    /\ serialized' = res
    /\ textsProcessed' = res.texts
    /\ serLog' = res.icus
    /\ i18nData' = IF res.isNull THEN NoRecord ELSE Record(res.cases)
    /\ enableI18nHydration' = enabled
    /\ serializedBy' = by
    /\ pc' = "serialized"
    /\ UNCHANGED <<ast, lView, containers, dom, i18nNodes, disconnectedNodes, log,
                   firstRun, hydratedBy, runs, flags>>

\* trySerializeI18nBlock(lView, index, context): whatever _trySerializeI18nBlockImpl
\* holds is what runs.
TrySerializeI18nBlock ==
    /\ pc = "rendered"
    /\ \E enabled \in BOOLEAN :
          IF trySerializeImpl = "noop"
          THEN Serialized(NullReturned, "noop", enabled)
          ELSE Serialized(trySerializeI18nBlockImpl(lView, enabled, ast),
                          "trySerializeI18nBlock", enabled)

\* computeI18nSerialization(lView, index, corruptedTextNodes)
ComputeI18nSerialization ==
    /\ pc = "rendered"
    /\ Serialized(computeI18nSerialization(lView, ast), "computeI18nSerialization", TRUE)

\* A hydration pass ended as res.
Hydrated(res, by) ==
    /\ pc' = IF res.threw THEN "threw" ELSE "hydrated"
    /\ i18nNodes' = res.i18nNodes
    /\ disconnectedNodes' = res.disconnectedNodes
    /\ i18nData' = res.i18nData
    /\ log' = res.log
    /\ firstRun' = IF runs = 0
                   THEN [i18nData |-> i18nData, i18nNodesFound |-> i18nNodes,
                         disconnectedNodesFound |-> disconnectedNodes,
                         i18nNodes |-> res.i18nNodes,
                         disconnectedNodes |-> res.disconnectedNodes]
                   ELSE firstRun
    /\ hydratedBy' = by
    /\ runs' = runs + 1
    /\ UNCHANGED <<ast, lView, containers, dom, enableI18nHydration, serialized,
                   textsProcessed, serLog, serializedBy, flags>>

\* A call that returned before touching anything.
Skipped ==
    /\ pc' = "skipped"
    /\ UNCHANGED <<ast, lView, containers, dom, enableI18nHydration, i18nData,
                   i18nNodes, disconnectedNodes, serialized, textsProcessed, serLog,
                   log, firstRun, serializedBy, hydratedBy, runs, flags>>

\* lView[HYDRATION]: a view that was never annotated has none.
hydrationInfo == pc # "rendered"

CanHydrate(serializers, by) ==
    /\ pc \in {"rendered", "serialized", "hydrated"}
    /\ serializedBy \in {"none"} \cup serializers
    /\ hydratedBy \in {"none", by}
    /\ runs < MaxRuns

\* prepareI18nBlockForHydration(lView, index), i18n.ts
PrepareI18nBlockForHydration ==
    /\ CanHydrate({"noop", "trySerializeI18nBlock"}, "prepareI18nBlockForHydration")
    /\ IF prepareImpl = "noop" \/ ~isI18nHydrationSupportEnabled \/ ~hydrationInfo
       THEN Skipped
       ELSE \E ngDevMode \in BOOLEAN :
               Hydrated(prepareI18nBlockForHydrationImpl(ngDevMode, ast, dom,
                            containers, i18nNodes, disconnectedNodes, i18nData),
                        "prepareI18nBlockForHydration")

\* prepareI18nBlockForHydration(lView, index), the isConnected variant
PrepareI18nBlockForHydrationConnected ==
    /\ CanHydrate({"noop", "trySerializeI18nBlock"},
                  "prepareI18nBlockForHydrationConnected")
    /\ IF prepareImpl = "noop" \/ ~isI18nHydrationSupportEnabled \/ ~hydrationInfo
       THEN Skipped
       ELSE Hydrated(prepareI18nBlockForHydrationConnectedImpl(ast, dom, containers,
                         i18nNodes, disconnectedNodes, i18nData),
                     "prepareI18nBlockForHydrationConnected")

\* computeI18nDeserialization(lView, index), legacy
ComputeI18nDeserialization ==
    /\ CanHydrate({"computeI18nSerialization"}, "computeI18nDeserialization")
    /\ IF ~hydrationInfo
       THEN Skipped
       ELSE \E ngDevMode \in BOOLEAN :
               Hydrated(computeI18nDeserialization(ngDevMode, ast, dom, containers,
                            i18nNodes, disconnectedNodes, i18nData),
                        "computeI18nDeserialization")

\* A call that sets a module-level switch leaves the view and its records alone.
Configuring ==
    UNCHANGED <<ast, lView, containers, dom, enableI18nHydration, i18nData,
                i18nNodes, disconnectedNodes, serialized, textsProcessed, serLog,
                log, firstRun, serializedBy, hydratedBy, runs, pc>>

\* setIsI18nHydrationSupportEnabled(enabled)
SetIsI18nHydrationSupportEnabled ==
    /\ Configuring
    /\ \E enabled \in BOOLEAN : isI18nHydrationSupportEnabled' = enabled
    /\ UNCHANGED <<trySerializeImpl, prepareImpl>>

\* enableTrySerializeI18nBlockImpl()
EnableTrySerializeI18nBlockImpl ==
    /\ Configuring
    /\ trySerializeImpl' = "impl"
    /\ UNCHANGED <<isI18nHydrationSupportEnabled, prepareImpl>>

\* enablePrepareI18nBlockForHydrationImpl()
EnablePrepareI18nBlockForHydrationImpl ==
    /\ Configuring
    /\ prepareImpl' = "impl"
    /\ UNCHANGED <<isI18nHydrationSupportEnabled, trySerializeImpl>>

Next ==
    \/ SetIsI18nHydrationSupportEnabled
    \/ EnableTrySerializeI18nBlockImpl
    \/ EnablePrepareI18nBlockForHydrationImpl
    \/ TrySerializeI18nBlock
    \/ ComputeI18nSerialization
    \/ PrepareI18nBlockForHydration
    \/ PrepareI18nBlockForHydrationConnected
    \/ ComputeI18nDeserialization

Spec == Init /\ [][Next]_vars

(***************************************************************************)
(* Properties of serialization                                             *)
(***************************************************************************)
NodeAt(index) == CHOOSE n \in AllNodes(ast) : n.index = index
SlotOf(n) == lView[n.currentCaseLViewIndex]

\* The serializer gets to node m: every ICU node above m has a case set, and m lies in
\* that case.
SerializerReaches(m) ==
    \A a \in IcuNodes(ast) :
        m \in Below(a) =>
            /\ ~IsNull(SlotOf(a))
            /\ m \in AllNodes(a.cases[SelectedCase(SlotOf(a)[1]) + 1])

\* The ICU nodes the serializer visits with a case set.
IcusSerialized == {n \in IcuNodes(ast) : ~IsNull(SlotOf(n)) /\ SerializerReaches(n)}

\* The nodes an ICU node keeps the serializer away from: everything below it when
\* its slot is unset, else everything in the cases that are not selected.
SkippedBelow(n) ==
    IF IsNull(SlotOf(n)) THEN Below(n)
    ELSE UNION {AllNodes(n.cases[i]) :
                  i \in (1..Len(n.cases)) \ {SelectedCase(SlotOf(n)[1]) + 1}}

SerializedByCurrent ==
    pc # "rendered" /\ serializedBy = "trySerializeI18nBlock" /\ enableI18nHydration

\* C6: for a block without ICU nodes (the empty block included) the serializer, current
\* or legacy, returns null and never an empty list.
C6_NoIcuReturnsNull ==
    (pc # "rendered" /\ IcuNodes(ast) = {}) =>
        /\ serialized.isNull
        /\ i18nData.isNull

C6_Witness ==
    /\ SerializedByCurrent
    /\ IcuNodes(ast) = {}
    /\ Len(textsProcessed) >= 2
    /\ serialized.isNull

\* C7: the list returned holds, for exactly the ICU nodes visited with a case set, the
\* decoded case of each, in document order (slots are numbered in document order); the
\* result is null exactly when there is no such node.
C7_CaseListInTraversalOrder ==
    SerializedByCurrent =>
        LET order == SortSet({n.index : n \in IcusSerialized})
        IN  /\ serialized.cases =
                 [i \in 1..Len(order) |-> SelectedCase(SlotOf(NodeAt(order[i]))[1])]
            /\ serialized.isNull <=> IcusSerialized = {}

C7_Witness ==
    /\ SerializedByCurrent
    /\ Len(serialized.cases) >= 2
    /\ serialized.cases[1] # serialized.cases[2]
    /\ \E n \in IcusSerialized, m \in IcusSerialized :
          m \in Below(n) /\ SlotOf(n)[1] < 0 /\ SlotOf(m)[1] >= 0

\* C8: below an ICU node whose slot is unset the serializer visits nothing, and below
\* one whose slot is set it visits nothing outside the selected case: no text node
\* there is handed to processTextNodeBeforeSerialization and no ICU node there writes
\* an entry; an unset ICU node writes none itself, and every entry of the list was
\* written by a visited node.
C8_OnlySelectedCaseSerialized ==
    SerializedByCurrent =>
        /\ \A n \in IcuNodes(ast) :
              /\ \A m \in SkippedBelow(n) :
                    m.index \notin Range(textsProcessed) \cup Range(serLog)
              /\ IsNull(SlotOf(n)) => n.index \notin Range(serLog)
        /\ Len(serialized.cases) = Len(serLog)

C8_Witness ==
    /\ SerializedByCurrent
    /\ \E n \in IcuNodes(ast) :
          IsNull(SlotOf(n)) /\ SerializerReaches(n) /\ Below(n) # {}
    /\ \E n \in IcusSerialized :
          /\ \E m \in SkippedBelow(n) : m.kind = "TEXT"
          /\ \E m \in Below(n) : m.index \in Range(textsProcessed)

(***************************************************************************)
(* Properties of hydration                                                 *)
(***************************************************************************)
\* The first pass found an empty map and an empty disconnected set.
FoundEmpty == firstRun.i18nNodesFound = <<>> /\ firstRun.disconnectedNodesFound = {}

\* The first pass over a view, started from an empty map and an empty disconnected
\* set, has run to its end.
FirstPass == pc = "hydrated" /\ runs = 1 /\ FoundEmpty

Steps(ev, pos) == {i \in 1..Len(log) : log[i].ev = ev /\ log[i].pos = pos}
Entered(n) == Steps("enter", Pos(n)) # {}
EnterOf(n) == log[CHOOSE i \in Steps("enter", Pos(n)) : TRUE]
ExitOf(n) == log[CHOOSE i \in Steps("exit", Pos(n)) : TRUE]
MarkOf(n) == log[CHOOSE i \in Steps("mark", Pos(n)) : TRUE]
PopOf(n) == log[CHOOSE i \in Steps("pop", Pos(n)) : TRUE]

Mapped(n) == Pos(n) \in DOMAIN i18nNodes
Disconnected(n) == Pos(n) \in disconnectedNodes

\* The node k siblings after node p of the live tree, or null past the end of the chain.
SiblingAt(p, k) ==
    IF p[Len(p)] + k <= Len(childNodes(dom, Parent(p)))
    THEN Parent(p) \o <<p[Len(p)] + k>>
    ELSE NULL

IsSubtemplate(n) == n.kind = "PLACEHOLDER" /\ n.type = "SUBTEMPLATE"

\* The nodes below subtemplate placeholders, and the nodes a pass is to visit: all others.
BelowSubtemplates == UNION {Below(n) : n \in {m \in AllNodes(ast) : IsSubtemplate(m)}}
Visitable == AllNodes(ast) \ BelowSubtemplates

\* The nodes in the cases of ICU node n other than case c.
InOtherCases(n, c) ==
    UNION {AllNodes(n.cases[k]) : k \in (1..Len(n.cases)) \ {c + 1}}

\* The ICU nodes that took an entry off the queue in the latest pass, the entry being
\* a number.
IcusSelecting ==
    {n \in IcuNodes(ast) : Steps("pop", Pos(n)) # {} /\ ~IsNull(PopOf(n).sel)}

\* The cursor is handed from the ICU node n to its selected case and back untouched
\* by the other cases: the first node of the selected case starts where the ICU node
\* was entered, and the ICU node is marked where the last one left the cursor.
CursorPassesOtherCases(n, c) ==
    LET selected == IF c < Len(n.cases) THEN n.cases[c + 1] ELSE <<>>
    IN  IF selected = <<>> THEN MarkOf(n).cur = EnterOf(n).cur
        ELSE /\ EnterOf(selected[1]).cur = EnterOf(n).cur
             /\ MarkOf(n).cur = ExitOf(selected[Len(selected)]).cur

\* What C3 says of the nodes `others` in the cases of n that are not selected.
OtherCasesDisconnected(n, c, others) ==
    /\ \A m \in others :
          /\ Disconnected(m)
          /\ ~Mapped(m)
          /\ \A i \in Steps("pop", Pos(m)) : ~log[i].flag
          /\ \A i \in Steps("enter", Pos(m)) : log[i].cur = NULL
    /\ CursorPassesOtherCases(n, c)

\* C3, as claimed: after a pass in which ICU node n took case c off the queue, every
\* position under every other case of n is in the disconnected set and not in the map,
\* and visiting those cases neither moved the cursor nor popped an entry.
C3_AsClaimed ==
    FirstPass =>
        \A n \in IcusSelecting :
            OtherCasesDisconnected(n, PopOf(n).sel[1], InOtherCases(n, PopOf(n).sel[1]))

\* C3, amended: the same of every position under the other cases that the pass visits,
\* that is all but the positions below a subtemplate placeholder, which no pass visits
\* and which end up neither in the map nor in the disconnected set.
C3_OtherCasesDisconnected ==
    FirstPass =>
        \A n \in IcusSelecting :
            /\ OtherCasesDisconnected(n, PopOf(n).sel[1],
                   InOtherCases(n, PopOf(n).sel[1]) \ BelowSubtemplates)
            /\ \A m \in InOtherCases(n, PopOf(n).sel[1]) \cap BelowSubtemplates :
                  ~Disconnected(m) /\ ~Mapped(m) /\ ~Entered(m)

C3_Witness ==
    /\ FirstPass
    /\ hydratedBy = "prepareI18nBlockForHydration"
    /\ \E n \in IcusSelecting :
          /\ Len(n.cases) >= 3
          /\ PopOf(n).sel = Some(1)
          /\ Mapped(n.cases[2][1])
          /\ \E m \in InOtherCases(n, 1) : m.kind = "ICU" /\ Below(m) # {}
          /\ \E m \in InOtherCases(n, 1) : m.kind = "PLACEHOLDER"

\* C4: a subtemplate placeholder with container size k entered with the cursor at a
\* node is mapped to that node and leaves the cursor k + 1 siblings on (null past the
\* end of the chain); nothing below a subtemplate placeholder is visited, mapped,
\* recorded as disconnected or given a queue entry.
C4_SubtemplateSkip ==
    FirstPass =>
        \A n \in {m \in AllNodes(ast) : IsSubtemplate(m)} :
            /\ (Entered(n) /\ EnterOf(n).cur # NULL) =>
                  /\ Mapped(n) /\ i18nNodes[Pos(n)] = EnterOf(n).cur
                  /\ ExitOf(n).cur = SiblingAt(EnterOf(n).cur, containers[Pos(n)][1] + 1)
            /\ \A m \in Below(n) :
                  /\ ~Mapped(m) /\ ~Disconnected(m)
                  /\ \A i \in 1..Len(log) : log[i].pos # Pos(m)

C4_Witness ==
    /\ FirstPass
    /\ hydratedBy = "prepareI18nBlockForHydration"
    /\ \E n \in {m \in AllNodes(ast) : IsSubtemplate(m)} :
          /\ Entered(n) /\ EnterOf(n).cur # NULL
          /\ containers[Pos(n)] = Some(MaxContainerSize)
          /\ ExitOf(n).cur # NULL
          /\ \E m \in Below(n) : m.kind = "ICU"

\* C1: after the current serializer and a first pass of prepareI18nBlockForHydration
\* (i18n.ts) over the whole render of a view in which every ICU node has a case set,
\* every rendered ICU node a pass is to visit has selected the case the view held.
RoundTrip ==
    /\ FirstPass
    /\ hydratedBy = "prepareI18nBlockForHydration"
    /\ SerializedByCurrent
    /\ \A n \in IcuNodes(ast) : ~IsNull(SlotOf(n))
    /\ dom = Render(ast, lView, containers)

SelectsCaseOfView(n) ==
    /\ Steps("pop", Pos(n)) # {}
    /\ PopOf(n).sel = Some(SelectedCase(SlotOf(n)[1]))

C1_RoundTripCaseOrder ==
    RoundTrip =>
        \A n \in IcusSerialized \cap Visitable : SelectsCaseOfView(n)

\* C1 holds of the blocks in which no ICU node lies below a subtemplate placeholder.
C1_WithoutIcuBelowSubtemplate ==
    (RoundTrip /\ IcuNodes(ast) \cap BelowSubtemplates = {}) =>
        \A n \in IcusSerialized : SelectsCaseOfView(n)

\* C2: after a pass against no live tree (a null root) the map is empty, every
\* position the pass visits is in the disconnected set and the persisted case list
\* is as it was.
C2_NullRootAllDisconnected ==
    (FirstPass /\ dom = <<>>) =>
        /\ i18nNodes = <<>>
        /\ \A n \in Visitable : Disconnected(n)
        /\ i18nData = firstRun.i18nData

\* C2 holds of prepareI18nBlockForHydration (i18n.ts) and of the legacy pass.
C2_WithoutConnectedFlag ==
    hydratedBy # "prepareI18nBlockForHydrationConnected" => C2_NullRootAllDisconnected

\* The marks of the latest pass that moved a cursor on from a node.
Advances(nodes) ==
    {i \in 1..Len(log) :
        /\ log[i].ev = "mark" /\ log[i].pos \in {Pos(n) : n \in nodes}
        /\ log[i].cur # NULL /\ log[i].next # log[i].cur}

\* An Element node whose k children are all Text, entered with the cursor at a node
\* with exactly k children.
ElementOverItsTexts(n) ==
    /\ n.kind = "ELEMENT"
    /\ \A i \in 1..Len(n.children) : n.children[i].kind = "TEXT"
    /\ Entered(n) /\ EnterOf(n).cur # NULL
    /\ Len(childNodes(dom, EnterOf(n).cur)) = Len(n.children)

\* C5: such an Element takes k + 1 cursor advances, one per child and one for itself,
\* and all k + 1 positions end up mapped to a node and none disconnected.
C5_ElementConsumesItsChildren ==
    FirstPass =>
        \A n \in AllNodes(ast) :
            ElementOverItsTexts(n) =>
                /\ Cardinality(Advances({n} \cup Below(n))) = Len(n.children) + 1
                /\ \A m \in {n} \cup Below(n) :
                      Mapped(m) /\ i18nNodes[Pos(m)] # NULL /\ ~Disconnected(m)

\* C5 holds of prepareI18nBlockForHydration (i18n.ts) and of the legacy pass.
C5_WithoutConnectedFlag ==
    hydratedBy # "prepareI18nBlockForHydrationConnected" => C5_ElementConsumesItsChildren

\* C9: a pass over a live tree that has a root but ends early runs to its end over
\* every node it is to visit, a cursor that is null stays null, and every position
\* marked with a null cursor is recorded as disconnected and not mapped.
C9_MissingNodesDisconnected ==
    (FirstPass /\ dom # <<>>) =>
        /\ \A n \in Visitable :
              /\ Entered(n) /\ Steps("exit", Pos(n)) # {}
              /\ EnterOf(n).cur = NULL => ExitOf(n).cur = NULL
        /\ \A i \in 1..Len(log) :
              (log[i].ev = "mark" /\ log[i].cur = NULL) =>
                  /\ log[i].next = NULL
                  /\ log[i].pos \in disconnectedNodes
                  /\ log[i].pos \notin DOMAIN i18nNodes

\* C9 holds of prepareI18nBlockForHydration (i18n.ts) and of the legacy pass.
C9_WithoutConnectedFlag ==
    hydratedBy # "prepareI18nBlockForHydrationConnected" => C9_MissingNodesDisconnected

\* C10: a pass leaves the persisted case list as it found it, and a second pass over
\* the same block, live tree and record leaves the map and the disconnected set as the
\* first did.
C10_PassesRepeat ==
    (pc = "hydrated" /\ runs >= 1) =>
        /\ i18nData = firstRun.i18nData
        /\ runs >= 2 =>
              /\ i18nNodes = firstRun.i18nNodes
              /\ disconnectedNodes = firstRun.disconnectedNodes

\* C10 holds of the legacy pass, which works on a copy of the persisted list.
C10_Legacy ==
    hydratedBy = "computeI18nDeserialization" => C10_PassesRepeat

\* The case queue the first pass found.
QueueFound == caseQueueOf(firstRun.i18nData)

\* The entries taken off the queue before step i of the latest pass.
PopsBefore(i) == Cardinality({j \in 1..(i - 1) : log[j].ev = "pop" /\ log[j].flag})

\* The head of the queue at step i: the next entry of the queue found, or undefined
\* once the queue has run out.
HeadAt(i) ==
    IF PopsBefore(i) < Len(QueueFound) THEN Some(QueueFound[PopsBefore(i) + 1]) ELSE None

\* The ICU node whose position is pos.
IcuAt(pos) == CHOOSE n \in IcuNodes(ast) : Pos(n) = pos

\* C11: an ICU node takes an entry off the queue iff it is entered connected with a
\* cursor at a node; the entry is the head of the queue, one per such node; otherwise
\* nothing is taken, no case is selected and every position the pass visits in its
\* cases is disconnected.
C11_IcuPopRule ==
    FirstPass =>
        /\ \A n \in IcuNodes(ast) \cap Visitable :
              Cardinality(Steps("pop", Pos(n))) = 1
        /\ \A i \in 1..Len(log) :
              log[i].ev = "pop" =>
                  /\ log[i].flag <=> (EnterOf(IcuAt(log[i].pos)).flag /\ log[i].cur # NULL)
                  /\ log[i].flag => log[i].sel = HeadAt(i)
                  /\ ~log[i].flag =>
                        /\ log[i].sel = None
                        /\ \A m \in Below(IcuAt(log[i].pos)) \ BelowSubtemplates :
                              Disconnected(m) /\ ~Mapped(m)
        /\ hydratedBy # "computeI18nDeserialization" =>
              caseQueueOf(i18nData) =
                  SubSeq(QueueFound, PopsBefore(Len(log) + 1) + 1, Len(QueueFound))

\* C11 holds of prepareI18nBlockForHydration (i18n.ts) and of the legacy pass.
C11_WithoutConnectedFlag ==
    hydratedBy # "prepareI18nBlockForHydrationConnected" => C11_IcuPopRule

\* Node n was entered connected with the cursor at a live node.
EnteredAtNode(n) == Entered(n) /\ EnterOf(n).flag /\ EnterOf(n).cur # NULL

\* C12: an Element node entered connected with the cursor at node X has its children
\* matched from X's first child on, is itself mapped to X, and leaves the cursor of
\* its parent at X's next sibling, whatever its children consumed.
C12_ElementRule ==
    FirstPass =>
        \A n \in {m \in AllNodes(ast) : m.kind = "ELEMENT"} :
            EnteredAtNode(n) =>
                LET X == EnterOf(n).cur
                IN  /\ n.children # <<>> =>
                          /\ EnterOf(n.children[1]).cur = firstChild(dom, X)
                          /\ EnterOf(n.children[1]).flag
                    /\ MarkOf(n).cur = X
                    /\ Mapped(n) /\ i18nNodes[Pos(n)] = X
                    /\ ExitOf(n).cur = nextSibling(dom, X)

\* C12 holds of prepareI18nBlockForHydration (i18n.ts) and of the legacy pass.
C12_WithoutConnectedFlag ==
    hydratedBy # "prepareI18nBlockForHydrationConnected" => C12_ElementRule

\* C13: a Text node entered connected with the cursor at node X is mapped to X and
\* leaves the cursor at X's next sibling; entered disconnected or with a null cursor it
\* is recorded as disconnected, gets no entry in the map and leaves the cursor as it
\* was.  The block [Text] against a single text node gives the map {1 -> that node}
\* and an empty disconnected set.
C13_TextRule ==
    FirstPass =>
        /\ \A n \in {m \in Visitable : m.kind = "TEXT"} :
              IF EnteredAtNode(n)
              THEN /\ Mapped(n) /\ i18nNodes[Pos(n)] = EnterOf(n).cur
                   /\ ~Disconnected(n)
                   /\ ExitOf(n).cur = nextSibling(dom, EnterOf(n).cur)
              ELSE /\ Entered(n)
                   /\ Disconnected(n)
                   /\ ~Mapped(n)
                   /\ ExitOf(n).cur = EnterOf(n).cur
        /\ (ast = Ast(<<Text>>) /\ dom = << <<>> >>) =>
              i18nNodes = (1 :> <<1>>) /\ disconnectedNodes = {}

\* C13 holds of prepareI18nBlockForHydration (i18n.ts) and of the legacy pass.
C13_WithoutConnectedFlag ==
    hydratedBy # "prepareI18nBlockForHydrationConnected" => C13_TextRule

\* The placeholder elements with a recorded container size.
ContainerPlaceholders ==
    {n \in AllNodes(ast) :
        /\ n.kind = "PLACEHOLDER" /\ n.type = "ELEMENT"
        /\ ~IsNull(getNgContainerSize(containers, Pos(n)))}

\* Where the children of n leave the cursor they were handed at `from`.
AfterChildren(n, from) ==
    IF n.children = <<>> THEN from ELSE ExitOf(n.children[Len(n.children)]).cur

\* C14: a placeholder element with a container size, entered connected with the cursor
\* at node X, is mapped to X without advancing; its children are matched from X on
\* along the same sibling chain, and the cursor is left one sibling past where the
\* children left it (null when they reached the end of the chain).
C14_ContainerPlaceholderRule ==
    FirstPass =>
        \A n \in ContainerPlaceholders :
            EnteredAtNode(n) =>
                LET X == EnterOf(n).cur
                    after == AfterChildren(n, X)
                IN  /\ Mapped(n) /\ i18nNodes[Pos(n)] = X
                    /\ MarkOf(n).cur = X /\ MarkOf(n).next = X
                    /\ n.children # <<>> =>
                          /\ Steps("mark", Pos(n)) \subseteq
                                 1..(CHOOSE i \in Steps("enter", Pos(n.children[1])) : TRUE)
                          /\ EnterOf(n.children[1]).cur = X
                          /\ EnterOf(n.children[1]).flag
                    /\ ExitOf(n).cur =
                          IF after = NULL THEN NULL ELSE nextSibling(dom, after)

C14_Witness ==
    /\ FirstPass
    /\ hydratedBy = "prepareI18nBlockForHydration"
    /\ \E n \in ContainerPlaceholders :
          /\ EnteredAtNode(n)
          /\ n.children # <<>>
          /\ Mapped(n.children[1])
          /\ i18nNodes[Pos(n.children[1])] = i18nNodes[Pos(n)]
          /\ AfterChildren(n, EnterOf(n).cur) # NULL
          /\ ExitOf(n).cur # NULL

\* The placeholder elements without a recorded container size.
PlainPlaceholders ==
    {n \in AllNodes(ast) :
        /\ n.kind = "PLACEHOLDER" /\ n.type = "ELEMENT"
        /\ IsNull(getNgContainerSize(containers, Pos(n)))}

RECURSIVE AsElement(_), AsElements(_)
\* The node with every placeholder element without a container size replaced by an
\* Element node of the same index and children.
AsElement(node) ==
    LET inner == [node EXCEPT
                    !.children = AsElements(node.children),
                    !.cases = [i \in 1..Len(node.cases) |-> AsElements(node.cases[i])]]
    IN  IF node \in PlainPlaceholders
        THEN [inner EXCEPT !.kind = "ELEMENT", !.type = "NONE"]
        ELSE inner

AsElements(nodes) == [i \in 1..Len(nodes) |-> AsElement(nodes[i])]

\* The first pass as the implementation that ran it does it over the block `nodes`.
FirstPassOver(nodes) ==
    CASE hydratedBy = "prepareI18nBlockForHydration" ->
            prepareI18nBlockForHydrationImpl(FALSE, nodes, dom, containers, <<>>, {},
                                             firstRun.i18nData)
      [] hydratedBy = "prepareI18nBlockForHydrationConnected" ->
            prepareI18nBlockForHydrationConnectedImpl(nodes, dom, containers, <<>>, {},
                                                      firstRun.i18nData)
      [] hydratedBy = "computeI18nDeserialization" ->
            computeI18nDeserialization(FALSE, nodes, dom, containers, <<>>, {},
                                       firstRun.i18nData)

\* C15: with every placeholder element that has no container size replaced by an
\* Element node, the pass leaves the same map, the same disconnected set and the same
\* remaining queue, and enters and leaves every node with the same cursor.
C15_PlaceholderAsElement ==
    FirstPass =>
        LET other == FirstPassOver(AsElements(ast))
        IN  /\ ~other.threw
            /\ other.i18nNodes = i18nNodes
            /\ other.disconnectedNodes = disconnectedNodes
            /\ other.i18nData = i18nData
            /\ Range(other.log) = Range(log)

C15_Witness ==
    /\ FirstPass
    /\ hydratedBy = "prepareI18nBlockForHydration"
    /\ AsElements(ast) # ast
    /\ \E n \in PlainPlaceholders :
          /\ EnteredAtNode(n)
          /\ n.children # <<>>
          /\ Mapped(n.children[1])
          /\ i18nNodes[Pos(n.children[1])] = firstChild(dom, EnterOf(n).cur)
          /\ ExitOf(n).cur # NULL

\* The steps of the latest pass at the positions of the nodes ns.
StepsAt(ns) == {i \in 1..Len(log) : log[i].pos \in {Pos(m) : m \in ns}}

\* The case of ICU node n that the pass treated as selected: its nodes, or none.
SelectedNodes(n) ==
    LET sel == PopOf(n).sel
    IN  IF ~IsNull(sel) /\ sel[1] < Len(n.cases) THEN n.cases[sel[1] + 1] ELSE <<>>

\* C16: an ICU node is marked after every step taken in its cases, with the cursor
\* where the selected case left it (where the ICU node was entered when no case was
\* selected or the case is empty); with that cursor at a node the ICU's position is
\* mapped to it and the cursor ends at its next sibling.
C16_IcuAnchorOrdering ==
    FirstPass =>
        \A n \in IcuNodes(ast) \cap Visitable :
            LET selected == SelectedNodes(n)
                anchor == MarkOf(n).cur
            IN  /\ Cardinality(Steps("mark", Pos(n))) = 1
                /\ \A i \in StepsAt(Below(n)), j \in Steps("mark", Pos(n)) : i < j
                /\ anchor = IF selected = <<>> THEN EnterOf(n).cur
                            ELSE ExitOf(selected[Len(selected)]).cur
                /\ anchor # NULL =>
                      /\ Mapped(n) /\ i18nNodes[Pos(n)] = anchor
                      /\ ExitOf(n).cur = nextSibling(dom, anchor)

C16_Witness ==
    /\ FirstPass
    /\ hydratedBy = "prepareI18nBlockForHydration"
    /\ \E n \in IcuNodes(ast) \cap Visitable :
          /\ Len(n.cases) >= 2
          /\ SelectedNodes(n) # <<>>
          /\ SelectedNodes(n) # n.cases[Len(n.cases)]
          /\ n.cases[Len(n.cases)] # <<>>
          /\ MarkOf(n).cur # NULL
          /\ MarkOf(n).cur # EnterOf(n).cur
          /\ ExitOf(n).cur # NULL

(***************************************************************************)
(* Properties of serialization, continued                                  *)
(***************************************************************************)
\* A serializer walked the block.
Walked ==
    \/ SerializedByCurrent
    \/ pc # "rendered" /\ serializedBy = "computeI18nSerialization"

\* What the serializer that ran returns for the view `view`.
SerializerOn(view) ==
    IF serializedBy = "computeI18nSerialization"
    THEN computeI18nSerialization(view, ast)
    ELSE trySerializeI18nBlockImpl(view, TRUE, ast)

\* The other encoding of the case held in the slot of ICU node n: v for ~v, ~v for v.
Recoded(n) ==
    [lView EXCEPT ![n.currentCaseLViewIndex] = Some(-SlotOf(n)[1] - 1)]

\* C17: every ICU node the walk reaches with its slot set to v writes v when v >= 0 and
\* ~v = -v - 1 when v < 0, and the walk goes on into that case (its text nodes are
\* processed); the view holding the other encoding of the same case gives the same
\* result.
C17_CaseDecoding ==
    Walked =>
        \A n \in IcusSerialized :
            LET v == SlotOf(n)[1]
                decoded == IF v >= 0 THEN v ELSE -v - 1
            IN  /\ \E i \in 1..Len(serLog) :
                      /\ serLog[i] = n.index
                      /\ i <= Len(serialized.cases) /\ serialized.cases[i] = decoded
                /\ \A i \in 1..Len(n.cases[decoded + 1]) :
                      n.cases[decoded + 1][i].kind = "TEXT" =>
                          n.cases[decoded + 1][i].index \in Range(textsProcessed)
                /\ SerializerOn(Recoded(n)) = serialized

\* C17 holds of trySerializeI18nBlock (i18n.ts).
C17_Current ==
    serializedBy # "computeI18nSerialization" => C17_CaseDecoding

(***************************************************************************)
(* Properties of the module switches                                       *)
(***************************************************************************)
\* A call of trySerializeI18nBlock that is to return null: the implementation is not
\* installed, or the context does not enable i18n hydration.
SerializationOff ==
    /\ TrySerializeI18nBlock
    /\ ~(trySerializeImpl = "impl" /\ enableI18nHydration')

\* A call of prepareI18nBlockForHydration that is to do nothing: the implementation is
\* not installed, the support flag is false, or the view has no hydration info.
PreparationOff ==
    /\ PrepareI18nBlockForHydration \/ PrepareI18nBlockForHydrationConnected
    /\ ~(prepareImpl = "impl" /\ isI18nHydrationSupportEnabled /\ hydrationInfo)

\* C18: whatever calls set the switches before, trySerializeI18nBlock returns null and
\* walks nothing unless its implementation is installed and the context enables i18n
\* hydration; prepareI18nBlockForHydration leaves the map, the disconnected set and
\* the case queue alone unless its implementation is installed, the support flag is
\* true and the view has hydration info; an installed implementation stays installed.
C18_FeatureGating ==
    [][/\ SerializationOff =>
             /\ serialized'.isNull /\ i18nData'.isNull
             /\ textsProcessed' = <<>> /\ serLog' = <<>>
       /\ PreparationOff => UNCHANGED <<i18nNodes, disconnectedNodes, i18nData>>
       /\ trySerializeImpl = "impl" => trySerializeImpl' = "impl"
       /\ prepareImpl = "impl" => prepareImpl' = "impl"]_vars

C18_Witness ==
    /\ pc = "skipped"
    /\ serializedBy = "trySerializeI18nBlock"
    /\ ~enableI18nHydration
    /\ IcusSerialized # {}
    /\ \E n \in AllNodes(ast) : n.kind = "TEXT" /\ SerializerReaches(n)
    /\ serialized.isNull
    /\ dom # <<>>
    /\ prepareImpl = "impl"
    /\ ~isI18nHydrationSupportEnabled

(***************************************************************************)
(* Properties of a round trip                                              *)
(***************************************************************************)
\* The current serializer, then a first pass of prepareI18nBlockForHydration (i18n.ts)
\* over the whole render of the view.
WholeRoundTrip ==
    /\ FirstPass
    /\ hydratedBy = "prepareI18nBlockForHydration"
    /\ SerializedByCurrent
    /\ dom = Render(ast, lView, containers)

\* C19: after the serializer and a pass over the whole render, the case queue is empty:
\* the pass took as many entries as the serializer wrote.
C19_QueueDrained ==
    WholeRoundTrip => caseQueueOf(i18nData) = <<>>

\* C19 holds of the blocks in which no ICU node lies below a subtemplate placeholder.
C19_WithoutIcuBelowSubtemplate ==
    IcuNodes(ast) \cap BelowSubtemplates = {} => C19_QueueDrained

\* C20: after the current serializer and a first pass over the whole render of a block
\* with no ICU node below a subtemplate placeholder, an ICU node whose slot was unset
\* has taken no entry off the queue, and every ICU node that wrote an entry has taken
\* the case it wrote.
C20_UnsetIcuTakesNoEntry ==
    (/\ FirstPass
     /\ SerializedByCurrent
     /\ dom = Render(ast, lView, containers)
     /\ IcuNodes(ast) \cap BelowSubtemplates = {}) =>
        /\ \A n \in IcuNodes(ast) :
              (IsNull(SlotOf(n)) /\ Steps("pop", Pos(n)) # {}) => IsNull(PopOf(n).sel)
        /\ \A n \in IcusSerialized : SelectsCaseOfView(n)

(***************************************************************************)
(* Properties of the map and the disconnected set                          *)
(***************************************************************************)
\* Node n has a live node in the map.
MappedToNode(n) == Mapped(n) /\ i18nNodes[Pos(n)] # NULL

\* C21: after a first pass, which starts from an empty map and an empty disconnected
\* set, every position the pass visits either has a live node in the map or is in the
\* disconnected set, never both and never neither.
C21_MappedOrDisconnected ==
    FirstPass =>
        \A n \in Visitable :
            /\ MappedToNode(n) \/ Disconnected(n)
            /\ ~(Mapped(n) /\ Disconnected(n))

\* C21 holds of prepareI18nBlockForHydration (i18n.ts) and of the legacy pass.
C21_WithoutConnectedFlag ==
    hydratedBy # "prepareI18nBlockForHydrationConnected" => C21_MappedOrDisconnected

\* The nodes marked with MarkOptions.CLAIM: Text, Element and ICU nodes, and
\* placeholder elements without a container size.
ClaimingNodes ==
    {n \in Visitable : n.kind \in {"TEXT", "ELEMENT", "ICU"}} \cup
    (PlainPlaceholders \cap Visitable)

\* Cursor b is where cursor a was or further along a's sibling chain, null being past
\* the end of every chain.
Forward(a, b) ==
    IF a = NULL THEN b = NULL
    ELSE b = NULL \/ (Parent(b) = Parent(a) /\ b[Len(b)] >= a[Len(a)])

\* The lists of nodes of the block: the block itself, and the children and cases of
\* its nodes.
NodeLists ==
    {ast} \cup {n.children : n \in AllNodes(ast)}
          \cup UNION {Range(n.cases) : n \in AllNodes(ast)}

\* C22: in a first pass of prepareI18nBlockForHydration (i18n.ts) or of the legacy
\* pass, two distinct claiming positions that have a live node in the map have distinct
\* ones; every mark and every node leaves the cursor where it was or further along the
\* same sibling chain, a null cursor stays null, and a node takes up the cursor where
\* the node before it in its list left it.
C22_NoNodeClaimedTwice ==
    (FirstPass /\ hydratedBy # "prepareI18nBlockForHydrationConnected") =>
        /\ \A n \in ClaimingNodes, m \in ClaimingNodes :
              (n # m /\ MappedToNode(n) /\ MappedToNode(m)) =>
                  i18nNodes[Pos(n)] # i18nNodes[Pos(m)]
        /\ \A i \in 1..Len(log) :
              log[i].ev = "mark" => Forward(log[i].cur, log[i].next)
        /\ \A n \in Visitable : Forward(EnterOf(n).cur, ExitOf(n).cur)
        /\ \A q \in NodeLists : \A i \in 1..(Len(q) - 1) :
              (Entered(q[i]) /\ Entered(q[i + 1])) =>
                  EnterOf(q[i + 1]).cur = ExitOf(q[i]).cur

C22_Witness ==
    /\ FirstPass
    /\ hydratedBy = "prepareI18nBlockForHydration"
    /\ Cardinality({n \in ClaimingNodes : MappedToNode(n)}) >= 4
    /\ \E n \in ClaimingNodes :
          /\ n.kind = "ELEMENT" /\ MappedToNode(n)
          /\ n.children # <<>> /\ MappedToNode(n.children[1])
    /\ \E n \in ClaimingNodes : n.kind = "ICU" /\ MappedToNode(n)
    /\ \E n \in Visitable : EnterOf(n).cur # NULL /\ ExitOf(n).cur = NULL

\* The ICU nodes that called shift() with the cursor at a node and were given no case
\* index of theirs: the queue had run out, or the entry is not below the case count.
IcusSelectingNothing ==
    {n \in IcuNodes(ast) \cap Visitable :
        /\ PopOf(n).flag /\ PopOf(n).cur # NULL
        /\ \/ IsNull(PopOf(n).sel)
           \/ PopOf(n).sel[1] \notin 0..(Len(n.cases) - 1)}

\* What C23 says of such an ICU node n and of the nodes `under` in its cases.
NoCaseSelected(n, under) ==
    /\ \A m \in under :
          /\ Disconnected(m) /\ ~Mapped(m)
          /\ \A i \in Steps("enter", Pos(m)) : log[i].cur = NULL
          /\ \A i \in Steps("pop", Pos(m)) : ~log[i].flag
    /\ MarkOf(n).cur = EnterOf(n).cur
    /\ Mapped(n) /\ i18nNodes[Pos(n)] = EnterOf(n).cur
    /\ MarkOf(n).next = nextSibling(dom, EnterOf(n).cur)
    /\ ExitOf(n).cur = nextSibling(dom, EnterOf(n).cur)
    /\ \A q \in NodeLists : \A i \in 1..(Len(q) - 1) :
          q[i] = n => Entered(q[i + 1]) /\ EnterOf(q[i + 1]).cur = ExitOf(n).cur

\* C23, as claimed: in a pass that ends without an error, an ICU node reached with the
\* cursor at a node when the queue is empty or its head is no case index of the node
\* selects no case: every position under every case is in the disconnected set and
\* not in the map, the ICU's position is mapped to the cursor node, the cursor moves to
\* the next sibling, and the node after the ICU node is visited from there.
C23_AsClaimed ==
    FirstPass => \A n \in IcusSelectingNothing : NoCaseSelected(n, Below(n))

\* C23, amended: the same of every position under the cases that the pass visits, that
\* is all but the positions below a subtemplate placeholder, which end up neither in
\* the map nor in the disconnected set.
C23_NoCaseSelected ==
    FirstPass =>
        \A n \in IcusSelectingNothing :
            /\ NoCaseSelected(n, Below(n) \ BelowSubtemplates)
            /\ \A m \in Below(n) \cap BelowSubtemplates :
                  ~Disconnected(m) /\ ~Mapped(m) /\ ~Entered(m)

C23_Witness ==
    /\ FirstPass
    /\ hydratedBy = "prepareI18nBlockForHydration"
    /\ \E n \in IcusSelectingNothing, m \in IcusSelectingNothing :
          /\ PopOf(n).sel = Some(Len(n.cases))
          /\ \E e \in Below(n) : e.kind = "ELEMENT" /\ e.children # <<>>
          /\ QueueFound # <<>>
          /\ IsNull(PopOf(m).sel)
          /\ EnterOf(m).cur = ExitOf(n).cur
          /\ Below(m) # {}
          /\ ExitOf(m).cur = NULL

(***************************************************************************)
(* Properties of what a pass leaves alone                                  *)
(***************************************************************************)
\* The map and the disconnected set the latest pass started from: what the first pass
\* found, or what the first pass left for the second.
Found ==
    IF runs = 1
    THEN [i18nNodes |-> firstRun.i18nNodesFound,
          disconnectedNodes |-> firstRun.disconnectedNodesFound]
    ELSE [i18nNodes |-> firstRun.i18nNodes,
          disconnectedNodes |-> firstRun.disconnectedNodes]

\* The positions the latest pass visited, and every position that has an entry.
VisitedPositions == {log[i].pos : i \in 1..Len(log)}
Positions ==
    DOMAIN Found.i18nNodes \cup Found.disconnectedNodes \cup
    DOMAIN i18nNodes \cup disconnectedNodes \cup {Pos(n) : n \in AllNodes(ast)}

\* C24: a first or second pass, ended or thrown, leaves the entries of the positions
\* it did not visit as it found them, in the map and in the disconnected set, and a
\* position it found in the disconnected set and matched to a live node is no longer
\* in the disconnected set.
C24_OnlyVisitedTouched ==
    (pc \in {"hydrated", "threw"} /\ runs \in {1, 2}) =>
        /\ \A p \in Positions \ VisitedPositions :
              /\ p \in DOMAIN i18nNodes <=> p \in DOMAIN Found.i18nNodes
              /\ p \in DOMAIN i18nNodes => i18nNodes[p] = Found.i18nNodes[p]
              /\ p \in disconnectedNodes <=> p \in Found.disconnectedNodes
        /\ \A i \in 1..Len(log) :
              (/\ log[i].ev = "mark" /\ log[i].cur # NULL
               /\ log[i].pos \in Found.disconnectedNodes) =>
                  /\ log[i].pos \notin disconnectedNodes
                  /\ log[i].pos \in DOMAIN i18nNodes
                  /\ i18nNodes[log[i].pos] = log[i].cur

C24_Witness ==
    /\ pc = "hydrated" /\ runs = 1
    /\ hydratedBy = "prepareI18nBlockForHydration"
    /\ Elsewhere \in DOMAIN i18nNodes /\ i18nNodes[Elsewhere] = ElsewhereNode
    /\ \E p \in Found.disconnectedNodes \ VisitedPositions :
          p \in {Pos(n) : n \in BelowSubtemplates}
    /\ \E p \in Found.disconnectedNodes \ VisitedPositions :
          p \notin {Pos(n) : n \in AllNodes(ast)}
    /\ \E p \in Found.disconnectedNodes \cap VisitedPositions :
          p \in DOMAIN i18nNodes /\ p \notin disconnectedNodes
    /\ \E p \in VisitedPositions : p \in disconnectedNodes \ Found.disconnectedNodes

====
